---- MODULE Spec2Model ----
(***************************************************************************)
(* Model of server/server.py of JudgeServer: the request dispatcher        *)
(* `server`, the handlers JudgeServer.ping / judge / compile_spj and the    *)
(* workspace context manager InitSubmissionEnv.                            *)
(*                                                                         *)
(* A worker serves one request to completion; every filesystem call and    *)
(* every collaborator call is one step, so that the steps of different     *)
(* workers interleave on the shared special-judge store.                   *)
(*                                                                         *)
(* Python's None is <<>> and a present value v is <<v>>.                   *)
(***************************************************************************)
EXTENDS Integers, Sequences, FiniteSets, TLC

(* ---------------- bounds ---------------- *)
NumWorkers == 2
MaxRequests == 2

Workers == 1..NumWorkers

None == <<>>
Some(v) == <<v>>
Truthy(o) == o # None

\* the empty dict {}, and the truth value of an optional dict
EmptyConfig == [k \in {} |-> ""]
TruthyConfig(o) == o # None /\ o[1] # EmptyConfig

(* ---------------- filename templates (str.format) ---------------- *)
\* A template is a sequence of literal pieces and of the replacement fields
\* {spj_version} and {test_case_id}.
FieldVersion == [field |-> "spj_version"]
FieldTestCase == [field |-> "test_case_id"]
Lit(s) == [lit |-> s]

RECURSIVE Format(_, _, _)
Format(template, spj_version, test_case_id) ==
    IF template = <<>> THEN ""
    ELSE LET piece == Head(template)
             text == IF piece = FieldVersion THEN spj_version
                     ELSE IF piece = FieldTestCase THEN test_case_id
                     ELSE piece.lit
         IN text \o Format(Tail(template), spj_version, test_case_id)

SrcTemplate == <<Lit("spj-"), FieldVersion, Lit("_"), FieldTestCase, Lit(".c")>>
ExeTemplate == <<Lit("spj-"), FieldVersion, Lit("_"), FieldTestCase>>
AltExeTemplate == <<Lit("checker-"), FieldVersion, Lit("_"), FieldTestCase>>

(* ---------------- permission modes ---------------- *)
WorkspaceMode == 505       \* 0o771
SpjSrcMode == 432          \* 0o660
SpjExeMode == 505          \* 0o771
NewDirMode == 493          \* 0o755, os.mkdir under the usual umask 022
NewFileMode == 420         \* 0o644, open(.., "w") under the usual umask 022
NewExeMode == 493          \* 0o755, an executable written by the Compiler
OtherBits(mode) == mode % 8

(* ---------------- exceptions and the result envelope ---------------- *)
Exception(cls, message) == [cls |-> cls, message |-> message]

ReportedKinds == {"CompileError", "TokenVerificationFailed", "SPJCompileError", "JudgeClientError"}

\* a dispatcher that loses the handler's return value
ResultDropped(value) == [err |-> None, data |-> ""]

\* ret = {"err": None, "data": <handler's return value>}
Result(value) == [err |-> None, data |-> value]

\* a dispatcher without the second except clause: the class name of an
\* unanticipated failure leaves as the error kind
EnvelopeNoGeneric(e) == [err |-> Some(e.cls), data |-> e.message]

\* the two except clauses of server()
Envelope(e) ==
    IF e.cls \in ReportedKinds
    THEN [err |-> Some(e.cls), data |-> e.message]
    ELSE [err |-> Some("JudgeClientError"), data |-> e.cls \o " :" \o e.message]

InvalidRequest == [err |-> Some("InvalidRequest"), data |-> "404"]

(* ---------------- requests ---------------- *)
token == "secret"
Tokens == {Some(token), Some("wrong"), None}

\* a dispatcher that hands every path to getattr(JudgeServer, path)
RecognizedAny(path) == TRUE

\* line 136
Recognized(path) == path \in {"judge", "ping", "compile_spj"}
Paths == {"judge", "ping", "compile_spj", "shutdown"}

\* the attributes of class JudgeServer
HasHandler(path) == path \in {"ping", "judge", "compile_spj"}

\* a dispatcher that skips the comparison of line 139
TokenUnchecked(r) == TRUE

\* line 139
TokenOk(r) == r.token = Some(token)

Sources == {"good", "bad"}
Versions == {"1"}
TestCases == {"7"}
RunResults == {"accepted", "wrong answer"}

CompileConfig == [src_name |-> "main.c", exe_name |-> "main"]
RunConfig == [exe_name |-> "solution.py"]
LanguageConfigs == {[compile |-> Some(CompileConfig), run |-> RunConfig],
                    [compile |-> Some(EmptyConfig), run |-> RunConfig],
                    [compile |-> None, run |-> RunConfig]}

SpjConfigs == {[exe_name |-> ExeTemplate]}
SpjCompileConfigs == {[src_name |-> SrcTemplate, exe_name |-> ExeTemplate],
                      [src_name |-> SrcTemplate, exe_name |-> AltExeTemplate]}

ArgNames == {"language_config", "src", "max_cpu_time", "max_memory", "test_case_id",
             "spj_version", "spj_config", "spj_compile_config", "spj_src", "output"}
\* the empty parameter set {}
NoArgs == [k \in ArgNames |-> None]

\* special-judge parts of a judge payload
SpjSetups ==
    {[spj_version |-> None, spj_config |-> None, spj_compile_config |-> None, spj_src |-> None]}
    \cup {[spj_version |-> Some(v), spj_config |-> None, spj_compile_config |-> None, spj_src |-> None]
            : v \in Versions}
    \cup {[spj_version |-> Some(v), spj_config |-> Some(c), spj_compile_config |-> None, spj_src |-> None]
            : v \in Versions, c \in SpjConfigs}
    \cup {[spj_version |-> Some(v), spj_config |-> Some(c), spj_compile_config |-> Some(cc), spj_src |-> s]
            : v \in Versions, c \in SpjConfigs, cc \in SpjCompileConfigs,
              s \in {None} \cup {Some(t) : t \in Sources}}

JudgeArgs ==
    {[NoArgs EXCEPT !["language_config"] = Some(lc), !["src"] = Some(s),
                    !["max_cpu_time"] = Some(1000), !["max_memory"] = Some(128),
                    !["test_case_id"] = Some(tc),
                    !["spj_version"] = spj.spj_version, !["spj_config"] = spj.spj_config,
                    !["spj_compile_config"] = spj.spj_compile_config,
                    !["spj_src"] = spj.spj_src]
        : lc \in LanguageConfigs, s \in Sources, tc \in TestCases, spj \in SpjSetups}

CompileSpjArgs ==
    {[NoArgs EXCEPT !["spj_version"] = Some(v), !["src"] = Some(s),
                    !["spj_compile_config"] = Some(cc), !["test_case_id"] = Some(tc)]
        : v \in Versions, s \in Sources, cc \in SpjCompileConfigs, tc \in TestCases}

\* The body of a request: a JSON object carrying parameters, a body that does
\* not parse, no JSON body at all, or JSON that is not an object ([] or null).
\* For each path: the payloads of that operation, the empty object, one
\* payload of another operation, and the three bodies that are not objects.
ArgsFor(path) ==
    CASE path = "judge" -> JudgeArgs
      [] path = "compile_spj" -> CompileSpjArgs \cup {CHOOSE a \in JudgeArgs : TRUE}
      [] path = "ping" -> {CHOOSE a \in CompileSpjArgs : TRUE}
      [] OTHER -> {}
Bodies(path) ==
    {[json |-> "object", args |-> a] : a \in ArgsFor(path) \cup {NoArgs}}
    \cup {[json |-> j, args |-> NoArgs] : j \in {"malformed", "absent", "nonobject"}}

Requests == UNION {[path : {p}, token : Tokens, body : Bodies(p)] : p \in Paths}

\* the requests of the concurrent specification: authenticated judge calls
\* without a checker or with the checker "1"/"7", and authenticated
\* compile_spj calls for that checker
ConcurrentRequests ==
    {r \in Requests :
        /\ r.token = Some(token)
        /\ r.body.json = "object"
        /\ \/ /\ r.path = "judge"
              /\ r.body.args \in JudgeArgs
              /\ r.body.args.language_config[1].compile = Some(CompileConfig)
              /\ r.body.args.src = Some("good")
              /\ \/ r.body.args.spj_version = None
                 \/ /\ r.body.args.spj_config # None
                    /\ r.body.args.spj_compile_config
                          = Some([src_name |-> SrcTemplate, exe_name |-> ExeTemplate])
                    /\ r.body.args.spj_src = Some("good")
           \/ /\ r.path = "compile_spj"
              /\ r.body.args \in CompileSpjArgs
              /\ r.body.args.src = Some("good")
              /\ r.body.args.spj_compile_config
                    = Some([src_name |-> SrcTemplate, exe_name |-> ExeTemplate])}

\* try: data = request.json / except Exception: data = {}
\* request.json raises on a body that does not parse, and returns the decoded
\* value otherwise; without a JSON body it returns None or raises, depending on
\* the installed Flask.  An outcome is the value bound to `data`.
RequestJson(body) ==
    CASE body.json = "object" -> {[mapping |-> TRUE, args |-> body.args]}
      [] body.json = "malformed" -> {[mapping |-> TRUE, args |-> NoArgs]}
      [] body.json = "absent" -> {[mapping |-> TRUE, args |-> NoArgs],
                                  [mapping |-> FALSE, args |-> NoArgs]}
      [] body.json = "nonobject" -> {[mapping |-> FALSE, args |-> NoArgs]}

\* signatures of the handlers: required and accepted keyword parameters
Required(path) ==
    CASE path = "ping" -> {}
      [] path = "judge" -> {"language_config", "src", "max_cpu_time", "max_memory", "test_case_id"}
      [] path = "compile_spj" -> {"spj_version", "src", "spj_compile_config", "test_case_id"}
Accepted(path) ==
    CASE path = "ping" -> {}
      [] path = "judge" -> ArgNames
      [] path = "compile_spj" -> {"spj_version", "src", "spj_compile_config", "test_case_id"}

Supplied(args) == {k \in ArgNames : args[k] # None}

\* getattr(JudgeServer, path)(**data): the exception the call itself raises
\* before the handler's body runs, or None
CallError(path, d) ==
    IF ~HasHandler(path)
    THEN Some(Exception("AttributeError", "type object 'JudgeServer' has no attribute"))
    ELSE IF ~d.mapping
    THEN Some(Exception("TypeError", "argument after ** must be a mapping"))
    ELSE IF ~(Supplied(d.args) \subseteq Accepted(path))
    THEN Some(Exception("TypeError", "got an unexpected keyword argument"))
    ELSE IF ~(Required(path) \subseteq Supplied(d.args))
    THEN Some(Exception("TypeError", "missing required positional arguments"))
    ELSE None

\* JudgeServer.ping
ping == [hostname |-> "judge", action |-> "pong"]

(* ---------------- collaborators ---------------- *)
\* Compiler().compile(compile_config, src_path, output_dir): produces the
\* executable output_dir/exe_name and returns its path, or raises CompileError.
Compiles(content) == content = "good"
CompilerError == Exception("CompileError", "compile error")

\* JudgeClient(...).run(): returns the run result or raises
EngineError == Exception("JudgeClientError", "judge client error")

(* ---------------- state ---------------- *)
VARIABLES
    DEBUG,          \* os.environ.get("judger_debug") == "1"
    pc,             \* pc[w]: where worker w stands in its request
    req,            \* req[w]: the request worker w is serving
    data,           \* data[w]: the keyword arguments the handler was called with
    sid,            \* sid[w]: submission_id of the judge call, None outside judge
    exe_path,       \* exe_path[w]: judge's exe_path, a file name inside the workspace
    compiling,      \* compiling[w]: source text of the checker compile in progress
    exc,            \* exc[w]: the exception propagating out of the with block
    ret,            \* ret[w]: the envelope returned for req[w]
    call,           \* call[w]: what the current call has done so far
    workspace,      \* JUDGER_WORKSPACE_BASE: submission_id -> directory
    spjSrcFiles,    \* SPJ_SRC_DIR: file name -> file
    spjExeFiles,    \* SPJ_EXE_DIR: file name -> file
    nextId,         \* number of identifiers uuid4 has handed out
    served,         \* number of requests received
    prev,           \* arguments of the last compile_spj call if it succeeded, else None
    failedSrc       \* source file names whose compile_spj has raised SPJCompileError

vars == <<DEBUG, pc, req, data, sid, exe_path, compiling, exc, ret, call,
          workspace, spjSrcFiles, spjExeFiles, nextId, served, prev, failedSrc>>
fs == <<workspace, spjSrcFiles, spjExeFiles>>

NoRequest == [path |-> "", token |-> None, body |-> [json |-> "absent", args |-> NoArgs]]
NoCall == [handler |-> None,       \* the handler whose body was entered
           created |-> FALSE,      \* os.mkdir of the workspace succeeded
           spjCompiles |-> 0,      \* Compiler invocations on a checker
           compiles |-> 0,         \* Compiler invocations on the submission
           engineCalls |-> 0,      \* Execution Engine invocations
           run_result |-> None,    \* what the Execution Engine returned
           written |-> {},         \* names of the files written into the workspace
           raised |-> None,        \* first exception raised inside the with block
           released |-> None,      \* outcome of shutil.rmtree: "ok", "failed", None
           spjFailed |-> FALSE,    \* the Compiler raised CompileError on a checker
           spjDone |-> FALSE,      \* line 126 completed: the checker is compiled
           setup |-> None,         \* __enter__'s first failing call, "none" if none failed
           spjWrote |-> FALSE]     \* this compile_spj wrote src at line 118 (until it ends)

\* an identifier source that repeats itself
Uuid4Repeating(n) == 0

\* uuid.uuid4().hex: the n-th identifier handed out
Uuid4(n) == n

Put(f, k, v) == [x \in DOMAIN f \cup {k} |-> IF x = k THEN v ELSE f[x]]
Drop(f, k) == [x \in DOMAIN f \ {k} |-> f[x]]

Init ==
    /\ DEBUG \in BOOLEAN
    /\ pc = [w \in Workers |-> "idle"]
    /\ req = [w \in Workers |-> NoRequest]
    /\ data = [w \in Workers |-> NoArgs]
    /\ sid = [w \in Workers |-> None]
    /\ exe_path = [w \in Workers |-> None]
    /\ compiling = [w \in Workers |-> None]
    /\ exc = [w \in Workers |-> None]
    /\ ret = [w \in Workers |-> None]
    /\ call = [w \in Workers |-> NoCall]
    /\ workspace = <<>>
    /\ spjSrcFiles = <<>>
    /\ spjExeFiles = <<>>
    /\ nextId = 0
    /\ served = 0
    /\ prev = None
    /\ failedSrc = {}

\* the envelope leaves the dispatcher: return Response(json.dumps(ret))
Respond(w, envelope) ==
    /\ ret' = [ret EXCEPT ![w] = Some(envelope)]
    /\ pc' = [pc EXCEPT ![w] = "done"]

\* server(path), up to the point where the handler's body starts
Server(w, r) ==
    /\ pc[w] = "idle"
    /\ served < MaxRequests
    /\ served' = served + 1
    /\ req' = [req EXCEPT ![w] = r]
    /\ UNCHANGED <<DEBUG, sid, exe_path, compiling, exc, workspace, spjSrcFiles, spjExeFiles,
                   nextId, prev, failedSrc>>
    /\ IF ~Recognized(r.path)
       THEN /\ data' = [data EXCEPT ![w] = NoArgs]
            /\ call' = [call EXCEPT ![w] = NoCall]
            /\ Respond(w, InvalidRequest)
       ELSE IF ~TokenOk(r)
       THEN /\ data' = [data EXCEPT ![w] = NoArgs]
            /\ call' = [call EXCEPT ![w] = NoCall]
            /\ Respond(w, Envelope(Exception("TokenVerificationFailed", "invalid token")))
       ELSE \E d \in RequestJson(r.body) :
              /\ data' = [data EXCEPT ![w] = d.args]
              /\ IF CallError(r.path, d) # None
                 THEN /\ call' = [call EXCEPT ![w] = NoCall]
                      /\ Respond(w, Envelope(CallError(r.path, d)[1]))
                 ELSE /\ call' = [call EXCEPT ![w] = [NoCall EXCEPT !.handler = Some(r.path)]]
                      /\ IF r.path = "ping"
                         THEN Respond(w, Result(ping))
                         ELSE /\ pc' = [pc EXCEPT ![w] = r.path]
                              /\ ret' = [ret EXCEPT ![w] = None]

(* ---------------- JudgeServer.judge ---------------- *)
\* a judge that looks for the template itself, its fields not filled in
SpjExePathUnformatted(a) == Format(a.spj_config[1].exe_name, "{spj_version}", "{test_case_id}")

\* os.path.join(SPJ_EXE_DIR, spj_config["exe_name"].format(...)), as a file name
SpjExePath(a) == Format(a.spj_config[1].exe_name, a.spj_version[1], a.test_case_id[1])

\* lines 56-70: submission_id, and the check for the checker's executable
JudgeInit(w) ==
    /\ pc[w] = "judge"
    /\ sid' = [sid EXCEPT ![w] = Some(Uuid4(nextId))]
    /\ nextId' = nextId + 1
    /\ LET a == data[w]
       IN IF Truthy(a.spj_version) /\ Truthy(a.spj_config)
             /\ SpjExePath(a) \notin DOMAIN spjExeFiles
          THEN pc' = [pc EXCEPT ![w] = "compile_spj"]
          ELSE pc' = [pc EXCEPT ![w] = "enter"]
    /\ UNCHANGED <<DEBUG, req, data, exe_path, compiling, exc, ret, call, fs, served, prev,
                   failedSrc>>

(* ---------------- InitSubmissionEnv ---------------- *)
\* what __enter__ leaves on disk when the named call is the first to fail
EnterDir(fail) ==
    CASE fail = "chown" -> [owner |-> "default", mode |-> NewDirMode]
      [] fail = "chmod" -> [owner |-> "root:compiler", mode |-> NewDirMode]
      [] fail = "none" -> [owner |-> "root:compiler", mode |-> WorkspaceMode]

\* __enter__: os.mkdir, os.chown, os.chmod; any failure is re-raised as
\* JudgeClientError and __exit__ does not run
Enter(w) ==
    /\ pc[w] = "enter"
    /\ \E fail \in {"none", "mkdir", "chown", "chmod"} :
        /\ sid[w][1] \in DOMAIN workspace => fail = "mkdir"
        /\ workspace' = IF fail = "mkdir" THEN workspace
                        ELSE Put(workspace, sid[w][1], EnterDir(fail))
        /\ call' = [call EXCEPT ![w].created = (fail # "mkdir"), ![w].setup = Some(fail)]
        /\ IF fail = "none"
           THEN /\ pc' = [pc EXCEPT ![w] = "body"]
                /\ UNCHANGED ret
           ELSE Respond(w, Envelope(Exception("JudgeClientError", "failed to create runtime dir")))
    /\ UNCHANGED <<DEBUG, req, data, sid, exe_path, compiling, exc, spjSrcFiles, spjExeFiles,
                   nextId, served, prev, failedSrc>>

\* the exception that leaves the with statement: __exit__ returns None, so an
\* exception of the block propagates, unless __exit__ itself raises
ExitRaises(inflight, rmtreeFailed) ==
    IF rmtreeFailed
    THEN Some(Exception("JudgeClientError", "failed to clean runtime dir"))
    ELSE inflight

\* __exit__, and the return of judge to the dispatcher
Exit(w) ==
    /\ pc[w] = "exit"
    /\ \E rmtreeFailed \in BOOLEAN :
        /\ DEBUG => ~rmtreeFailed
        /\ workspace' = IF DEBUG \/ rmtreeFailed THEN workspace
                        ELSE Drop(workspace, sid[w][1])
        /\ call' = [call EXCEPT ![w].released =
                        IF DEBUG THEN None ELSE IF rmtreeFailed THEN Some("failed") ELSE Some("ok")]
        /\ LET e == ExitRaises(exc[w], rmtreeFailed)
           IN IF e = None
              THEN Respond(w, Result(call[w].run_result[1]))
              ELSE Respond(w, Envelope(e[1]))
    /\ UNCHANGED <<DEBUG, req, data, sid, exe_path, compiling, exc, spjSrcFiles, spjExeFiles,
                   nextId, served, prev, failedSrc>>

\* a with block that catches what its statements raise and carries on
RaiseInBlockSwallowed(w, e) ==
    /\ UNCHANGED exc
    /\ pc' = [pc EXCEPT ![w] = "engine"]

\* an exception raised inside the with block
RaiseInBlock(w, e) ==
    /\ exc' = [exc EXCEPT ![w] = Some(e)]
    /\ pc' = [pc EXCEPT ![w] = "exit"]

\* a judge that writes the source of an interpreted language under the name
\* compiled languages use for their source
SrcAsExeUnderSrcName(run_config) == CompileConfig.src_name

\* line 85: the source of an interpreted language is written under the name
\* the run specification executes
SrcAsExe(run_config) == run_config.exe_name

\* lines 73-87: write the source and compile it, or write it as the executable.
\* The files of the workspace live and die with its directory; the names
\* written are kept in call[w].written.
Body(w) ==
    /\ pc[w] = "body"
    /\ LET a == data[w]
           compile_config == a.language_config[1].compile
           run_config == a.language_config[1].run
       IN \E writeFailed \in BOOLEAN :
            IF writeFailed
            THEN /\ RaiseInBlock(w, Exception("OSError", "write failed"))
                 /\ call' = [call EXCEPT ![w].raised = Some(Exception("OSError", "write failed"))]
                 /\ UNCHANGED exe_path
            ELSE IF TruthyConfig(compile_config)
            THEN IF Compiles(a.src[1])
                 THEN /\ exe_path' = [exe_path EXCEPT ![w] = Some(compile_config[1].exe_name)]
                      /\ call' = [call EXCEPT ![w].compiles = @ + 1,
                                              ![w].written = {compile_config[1].src_name,
                                                              compile_config[1].exe_name}]
                      /\ pc' = [pc EXCEPT ![w] = "engine"]
                      /\ UNCHANGED exc
                 ELSE /\ call' = [call EXCEPT ![w].compiles = @ + 1,
                                              ![w].written = {compile_config[1].src_name},
                                              ![w].raised = Some(CompilerError)]
                      /\ RaiseInBlock(w, CompilerError)
                      /\ UNCHANGED exe_path
            ELSE /\ exe_path' = [exe_path EXCEPT ![w] = Some(SrcAsExe(run_config))]
                 /\ call' = [call EXCEPT ![w].written = {SrcAsExe(run_config)}]
                 /\ pc' = [pc EXCEPT ![w] = "engine"]
                 /\ UNCHANGED exc
    /\ UNCHANGED <<DEBUG, req, data, sid, compiling, ret, fs, nextId, served, prev, failedSrc>>

\* lines 89-100: run the Execution Engine
Engine(w) ==
    /\ pc[w] = "engine"
    /\ \/ \E r \in RunResults :
            /\ call' = [call EXCEPT ![w].engineCalls = @ + 1, ![w].run_result = Some(r)]
            /\ pc' = [pc EXCEPT ![w] = "exit"]
            /\ UNCHANGED exc
       \/ /\ call' = [call EXCEPT ![w].engineCalls = @ + 1, ![w].raised = Some(EngineError)]
          /\ RaiseInBlock(w, EngineError)
    /\ UNCHANGED <<DEBUG, req, data, sid, exe_path, compiling, ret, fs, nextId, served, prev,
                   failedSrc>>

(* ---------------- JudgeServer.compile_spj ---------------- *)
\* the arguments of compile_spj: those of the request, or those judge passes
\* on lines 68-70 (src=spj_src)
SpjArgs(w) ==
    [spj_version |-> data[w].spj_version,
     src |-> IF req[w].path = "judge" THEN data[w].spj_src ELSE data[w].src,
     spj_compile_config |-> data[w].spj_compile_config,
     test_case_id |-> data[w].test_case_id]

\* lines 104-113: the formatted src_name and exe_name
SpjSrcName(w) ==
    LET a == SpjArgs(w)
    IN Format(a.spj_compile_config[1].src_name, a.spj_version[1], a.test_case_id[1])
SpjExeName(w) ==
    LET a == SpjArgs(w)
    IN Format(a.spj_compile_config[1].exe_name, a.spj_version[1], a.test_case_id[1])

\* a judge that ignores a failure of compile_spj and goes on to the workspace
SpjRaiseIgnoredByJudge(w, e) ==
    IF req[w].path = "judge"
    THEN /\ pc' = [pc EXCEPT ![w] = "enter"]
         /\ UNCHANGED ret
    ELSE Respond(w, Envelope(e))

\* compile_spj raises, or returns "success" to its caller
SpjRaise(w, e) == Respond(w, Envelope(e))
SpjReturn(w) ==
    IF req[w].path = "judge"
    THEN /\ pc' = [pc EXCEPT ![w] = "enter"]
         /\ UNCHANGED ret
    ELSE Respond(w, Result("success"))

\* a compile_spj that writes the source file on every call
NeedsWriteAlways(src_name, files) == TRUE

\* line 116: does the source file need writing?  Lines 122-123 follow when
\* it exists.
NeedsWrite(src_name, files) == src_name \notin DOMAIN files

\* lines 104-116
CompileSpj(w) ==
    /\ pc[w] = "compile_spj"
    /\ IF SpjArgs(w).spj_compile_config = None
       THEN SpjRaise(w, Exception("TypeError", "'NoneType' object is not subscriptable"))
       ELSE /\ pc' = [pc EXCEPT ![w] =
                        IF NeedsWrite(SpjSrcName(w), spjSrcFiles) THEN "spj_write" ELSE "spj_compile"]
            /\ UNCHANGED ret
    /\ UNCHANGED <<DEBUG, req, data, sid, exe_path, compiling, exc, call, fs, nextId, served,
                   prev, failedSrc>>

\* lines 117-120: open(spj_src_path, "w") creates or truncates the file,
\* f.write(src) fails on src=None, then os.chown and os.chmod
SpjWrite(w) ==
    /\ pc[w] = "spj_write"
    /\ LET name == SpjSrcName(w)
           src == SpjArgs(w).src
           opened == IF name \in DOMAIN spjSrcFiles
                     THEN [spjSrcFiles[name] EXCEPT !.content = ""]
                     ELSE [content |-> "", owner |-> "default", mode |-> NewFileMode]
       IN IF src = None
          THEN /\ spjSrcFiles' = Put(spjSrcFiles, name, opened)
               /\ SpjRaise(w, Exception("TypeError", "write() argument must be str, not None"))
          ELSE \E fail \in {"none", "chown", "chmod"} :
                 /\ spjSrcFiles' = Put(spjSrcFiles, name,
                        CASE fail = "chown" -> [opened EXCEPT !.content = src[1]]
                          [] fail = "chmod" -> [opened EXCEPT !.content = src[1],
                                                              !.owner = "root:compiler"]
                          [] fail = "none" -> [content |-> src[1], owner |-> "root:compiler",
                                               mode |-> SpjSrcMode])
                 /\ IF fail = "none"
                    THEN /\ pc' = [pc EXCEPT ![w] = "spj_compile"]
                         /\ UNCHANGED ret
                    ELSE SpjRaise(w, Exception("OSError", "Operation not permitted"))
    /\ call' = [call EXCEPT ![w].spjWrote = (SpjArgs(w).src # None)]
    /\ UNCHANGED <<DEBUG, req, data, sid, exe_path, compiling, exc, workspace,
                   spjExeFiles, nextId, served, prev, failedSrc>>

\* a compile_spj that waits while another worker's Compiler runs on a checker
CompileMayStartLocked(w) == \A o \in Workers \ {w} : compiling[o] = None

\* lines 122-123: nothing is acquired or awaited before the Compiler is invoked
CompileMayStart(w) == TRUE

\* line 123: the Compiler is invoked on the stored source file
SpjCompileStart(w) ==
    /\ pc[w] = "spj_compile"
    /\ CompileMayStart(w)
    /\ compiling' = [compiling EXCEPT ![w] = Some(spjSrcFiles[SpjSrcName(w)].content)]
    /\ call' = [call EXCEPT ![w].spjCompiles = @ + 1]
    /\ pc' = [pc EXCEPT ![w] = "spj_compiling"]
    /\ UNCHANGED <<DEBUG, req, data, sid, exe_path, exc, ret, fs, nextId, served, prev, failedSrc>>

\* the kind under which compile_spj reports the Compiler's CompileError
\* (lines 128-129)
SpjCompileFailure(e) == Exception("SPJCompileError", e.message)

\* lines 123-130: the Compiler returns or raises; os.chmod(exe_path, 0o771)
SpjCompileEnd(w) ==
    /\ pc[w] = "spj_compiling"
    /\ compiling' = [compiling EXCEPT ![w] = None]
    /\ IF Compiles(compiling[w][1])
       THEN \E chmodFailed \in BOOLEAN :
              /\ spjExeFiles' = Put(spjExeFiles, SpjExeName(w),
                     [built |-> compiling[w][1],
                      mode |-> IF chmodFailed THEN NewExeMode ELSE SpjExeMode])
              /\ call' = [call EXCEPT ![w].spjDone = ~chmodFailed, ![w].spjWrote = FALSE]
              /\ IF chmodFailed
                 THEN SpjRaise(w, Exception("OSError", "Operation not permitted"))
                 ELSE SpjReturn(w)
       ELSE /\ SpjRaise(w, SpjCompileFailure(CompilerError))
            /\ call' = [call EXCEPT ![w].spjFailed = TRUE, ![w].spjWrote = FALSE]
            /\ UNCHANGED spjExeFiles
    /\ UNCHANGED <<DEBUG, req, data, sid, exe_path, exc, workspace, spjSrcFiles,
                   nextId, served, prev, failedSrc>>

\* line 156: the response is returned and the worker takes the next request
Finish(w) ==
    /\ pc[w] = "done"
    /\ pc' = [pc EXCEPT ![w] = "idle"]
    /\ req' = [req EXCEPT ![w] = NoRequest]
    /\ data' = [data EXCEPT ![w] = NoArgs]
    /\ sid' = [sid EXCEPT ![w] = None]
    /\ exe_path' = [exe_path EXCEPT ![w] = None]
    /\ exc' = [exc EXCEPT ![w] = None]
    /\ ret' = [ret EXCEPT ![w] = None]
    /\ call' = [call EXCEPT ![w] = NoCall]
    /\ prev' = IF call[w].handler = Some("compile_spj")
               THEN IF ret[w][1].err = None THEN Some(data[w]) ELSE None
               ELSE prev
    /\ failedSrc' = IF call[w].spjFailed THEN failedSrc \cup {SpjSrcName(w)} ELSE failedSrc
    /\ UNCHANGED <<DEBUG, compiling, fs, nextId, served>>

(* ---------------- specifications ---------------- *)
Idle(w) == pc[w] = "idle"

Step(w) ==
    \/ JudgeInit(w)
    \/ CompileSpj(w)
    \/ SpjWrite(w)
    \/ SpjCompileStart(w)
    \/ SpjCompileEnd(w)
    \/ Enter(w)
    \/ Body(w)
    \/ Engine(w)
    \/ Exit(w)
    \/ Finish(w)

\* one request at a time: a request is received when every worker is idle
Receive(w) ==
    /\ \A o \in Workers : Idle(o)
    /\ \E r \in Requests : Server(w, r)

Next == \E w \in Workers : Receive(w) \/ Step(w)

Spec == Init /\ [][Next]_vars

\* the workers of the pool serve their requests concurrently
ReceiveConcurrently(w) == \E r \in ConcurrentRequests : Server(w, r)

NextConcurrent == \E w \in Workers : ReceiveConcurrently(w) \/ Step(w)

\* production: judger_debug is not set
InitConcurrent == Init /\ ~DEBUG

SpecConcurrent == InitConcurrent /\ [][NextConcurrent]_vars

(* ---------------- properties ---------------- *)
Ops == {"ping", "judge", "compile_spj"}
Done(w) == pc[w] = "done"
\* the step is taken by worker w
StepBy(w) == pc'[w] # pc[w]
Authenticated(r) == r.path \in Ops /\ r.token = Some("secret")
Rejected(r) == r.path \in Ops /\ r.token # Some("secret")
InvalidToken == [err |-> Some("TokenVerificationFailed"), data |-> "invalid token"]
CleanupFailed == [err |-> Some("JudgeClientError"), data |-> "failed to clean runtime dir"]

\* C1: with debug off, after an authenticated judge call has returned its
\* envelope, its workspace directory base_dir/submission_id does not exist.
C1_WorkspaceGone ==
    \A w \in Workers :
        (Done(w) /\ ~DEBUG /\ req[w].path = "judge" /\ Authenticated(req[w]) /\ sid[w] # None)
            => sid[w][1] \notin DOMAIN workspace

\* C2: a compile_spj call that follows a successful compile_spj call with the
\* same arguments performs no Compiler invocation.
C2_SecondCallDoesNotCompile ==
    \A w \in Workers :
        (call[w].handler = Some("compile_spj") /\ prev = Some(data[w]))
            => call[w].spjCompiles = 0

\* C3: a request for ping, judge or compile_spj whose token is absent or wrong
\* is answered in one step with {err: TokenVerificationFailed, data: "invalid
\* token"}; no handler is entered, no directory or file is created or changed,
\* no collaborator is invoked.
C3_AuthGate ==
    [][\A w \in Workers :
        (StepBy(w) /\ Rejected(req'[w]))
            => /\ pc'[w] = "done"
               /\ ret'[w] = Some(InvalidToken)
               /\ call'[w] = NoCall
               /\ UNCHANGED fs]_vars

C3_Witness ==
    \E w \in Workers :
        /\ Done(w) /\ req[w].path = "judge" /\ req[w].token = Some("wrong")
        /\ req[w].body.json = "object" /\ req[w].body.args \in JudgeArgs
        /\ ret[w] = Some(InvalidToken)

\* the handler of the call returned a value, told from what the call did
Returned(w) ==
    \/ call[w].handler = Some("ping")
    \/ call[w].handler = Some("compile_spj") /\ call[w].spjDone
    \/ call[w].handler = Some("judge") /\ call[w].run_result # None
                                       /\ call[w].released # Some("failed")

\* C4: a request that has been answered has one envelope {err, data}; err is
\* null exactly when the handler returned a value and is otherwise one of the
\* five error kinds; a request in progress has no envelope yet and can take
\* a further step.
C4_OneEnvelope ==
    \A w \in Workers :
        /\ Done(w) => /\ ret[w] # None
                      /\ DOMAIN ret[w][1] = {"err", "data"}
                      /\ (ret[w][1].err = None) <=> Returned(w)
                      /\ ret[w][1].err # None =>
                            ret[w][1].err[1] \in {"CompileError", "SPJCompileError",
                                                  "TokenVerificationFailed", "JudgeClientError",
                                                  "InvalidRequest"}
        /\ ~Done(w) => ret[w] = None
        /\ pc[w] \notin {"idle", "done"} => ENABLED Step(w)

C4_Witness ==
    \E w \in Workers :
        /\ Done(w) /\ call[w].raised # None /\ call[w].raised[1].cls = "OSError"
        /\ call[w].released = Some("ok")
        /\ ret[w][1].err = Some("JudgeClientError")

\* C5: when a CompileError of the submission or an Execution Engine error is
\* propagating and the workspace release fails too, the envelope carries the
\* earlier error's kind and message.
C5_EarlierErrorKept ==
    \A w \in Workers :
        (Done(w) /\ call[w].raised \in {Some(CompilerError), Some(EngineError)}
                 /\ call[w].released = Some("failed"))
            => /\ ret[w][1].err = Some(call[w].raised[1].cls)
               /\ ret[w][1].data = call[w].raised[1].message

\* C6: a Compiler failure on the submission is reported as CompileError, a
\* Compiler failure on a checker as SPJCompileError.
C6_CompileKindsKept ==
    \A w \in Workers :
        Done(w) =>
            /\ call[w].raised = Some(CompilerError) => ret[w][1].err = Some("CompileError")
            /\ call[w].spjFailed => ret[w][1].err = Some("SPJCompileError")

\* C7: a request whose path is none of ping, judge, compile_spj is answered in
\* one step with {err: InvalidRequest, data: "404"}, whatever its token and
\* payload; no handler is entered and nothing on disk changes.
C7_UnknownOperation ==
    [][\A w \in Workers :
        (StepBy(w) /\ req'[w] # NoRequest /\ req'[w].path \notin Ops)
            => /\ pc'[w] = "done"
               /\ ret'[w] = Some([err |-> Some("InvalidRequest"), data |-> "404"])
               /\ call'[w] = NoCall
               /\ UNCHANGED fs]_vars

C7_Witness ==
    \E w \in Workers :
        /\ Done(w) /\ req[w].path = "shutdown" /\ req[w].token = Some("secret")
        /\ ret[w][1].err = Some("InvalidRequest")

\* C8: with a valid token, a malformed or absent payload makes ping answer
\* {err: null, data.action: "pong"} and makes judge and compile_spj answer an
\* error envelope for missing parameters without entering the handler.
C8_BadPayloadIsEmpty ==
    \A w \in Workers :
        (Done(w) /\ Authenticated(req[w]) /\ req[w].body.json \in {"malformed", "absent"})
            => IF req[w].path = "ping"
               THEN ret[w][1].err = None /\ ret[w][1].data.action = "pong"
               ELSE /\ ret[w][1] = [err |-> Some("JudgeClientError"),
                                    data |-> "TypeError :missing required positional arguments"]
                    /\ call[w] = NoCall

\* C9: two workers never hold the same submission identifier, and a step of a
\* worker changes no workspace directory but the one of its own submission.
C9_WorkspaceIsolation ==
    /\ [](\A w1, w2 \in Workers :
            (w1 # w2 /\ sid[w1] # None /\ sid[w2] # None) => sid[w1] # sid[w2])
    /\ [][\A w \in Workers : StepBy(w) =>
            \A id \in DOMAIN workspace \cup DOMAIN workspace' :
                (\/ (id \in DOMAIN workspace) # (id \in DOMAIN workspace')
                 \/ (id \in DOMAIN workspace /\ id \in DOMAIN workspace'
                        /\ workspace[id] # workspace'[id]))
                => /\ sid[w] = Some(id)
                   /\ \A o \in Workers \ {w} : sid[o] # Some(id)]_vars

C9_Witness ==
    \E w1, w2 \in Workers :
        /\ w1 # w2
        /\ pc[w1] \in {"body", "engine", "exit"} /\ pc[w2] \in {"body", "engine", "exit"}
        /\ sid[w1][1] \in DOMAIN workspace /\ sid[w2][1] \in DOMAIN workspace

\* C10 as stated: whenever the Execution Engine returned r inside a judge
\* call, the envelope of the call is {err: null, data: r}.
C10_ResultAlwaysReturned ==
    \A w \in Workers :
        (Done(w) /\ call[w].run_result # None)
            => ret[w] = Some([err |-> None, data |-> call[w].run_result[1]])

\* C10 amended: when the Execution Engine returned r inside a judge call, the
\* envelope is {err: null, data: r} if the workspace release did not fail, and
\* {err: JudgeClientError, data: "failed to clean runtime dir"} if it failed.
C10_ResultReturnedUnlessCleanupFails ==
    \A w \in Workers :
        (Done(w) /\ call[w].run_result # None)
            => ret[w] = IF call[w].released = Some("failed")
                        THEN Some(CleanupFailed)
                        ELSE Some([err |-> None, data |-> call[w].run_result[1]])

C10_Witness ==
    \E w \in Workers :
        /\ Done(w) /\ call[w].run_result = Some("wrong answer")
        /\ call[w].released = Some("ok")
        /\ ret[w] = Some([err |-> None, data |-> "wrong answer"])

\* C11: when os.mkdir, os.chown or os.chmod fails in the acquisition of a
\* judge call's workspace, the call answers JudgeClientError "failed to create
\* runtime dir", no directory remains at base_dir/submission_id, and neither
\* the Compiler nor the Execution Engine was invoked for the submission.
C11_AcquireAllOrNothing ==
    \A w \in Workers :
        (Done(w) /\ call[w].setup \in {Some("mkdir"), Some("chown"), Some("chmod")})
            => /\ ret[w] = Some([err |-> Some("JudgeClientError"),
                                 data |-> "failed to create runtime dir"])
               /\ sid[w][1] \notin DOMAIN workspace
               /\ call[w].compiles = 0 /\ call[w].engineCalls = 0

\* C12: the directory of an acquired workspace, the source file and the
\* executable of a checker that compile_spj has compiled grant no access to
\* others.
C12_NoAccessForOthers ==
    \A w \in Workers :
        /\ (pc[w] \in {"body", "engine", "exit"} /\ call[w].setup = Some("none"))
                => OtherBits(workspace[sid[w][1]].mode) = 0
        /\ (Done(w) /\ call[w].spjDone)
                => /\ OtherBits(spjSrcFiles[SpjSrcName(w)].mode) = 0
                   /\ OtherBits(spjExeFiles[SpjExeName(w)].mode) = 0

\* C13: no step of the checker path waits for another worker: a worker at
\* judge's check for the executable, at compile_spj's check for the source, at
\* the write of the source or at the invocation of the Compiler can take that
\* step whatever the other workers are doing.  The witness is the interleaving
\* of the claim: two judge calls for one checker key that both found the
\* executable absent, both wrote the source file and both have the Compiler
\* running.
C13_NothingExcludesDoubleCompile ==
    \A w \in Workers :
        /\ pc[w] = "judge" => ENABLED JudgeInit(w)
        /\ pc[w] = "compile_spj" => ENABLED CompileSpj(w)
        /\ pc[w] = "spj_write" => ENABLED SpjWrite(w)
        /\ pc[w] = "spj_compile" => ENABLED SpjCompileStart(w)

C13_Witness ==
    \E w1, w2 \in Workers :
        /\ w1 # w2
        /\ req[w1].path = "judge" /\ req[w2].path = "judge"
        /\ pc[w1] = "spj_compiling" /\ pc[w2] = "spj_compiling"
        /\ compiling[w1] # None /\ compiling[w2] # None
        /\ data[w1].spj_version = data[w2].spj_version
        /\ data[w1].test_case_id = data[w2].test_case_id
        /\ SpjExePath(data[w1]) \notin DOMAIN spjExeFiles
        /\ SpjExePath(data[w2]) \notin DOMAIN spjExeFiles
        /\ call[w1].spjWrote /\ call[w2].spjWrote

\* C14: a judge call goes into compile_spj exactly when spj_version and
\* spj_config are both supplied and the executable named by spj_config's
\* exe_name template, spj_version and test_case_id is absent from the
\* executable store at that moment; otherwise it goes on to the workspace
\* with zero Compiler invocations on a checker, and no later step of the call
\* enters compile_spj or invokes the Compiler on a checker.
C14_CheckerCompiledIffAbsent ==
    [][\A w \in Workers :
        (StepBy(w) /\ req[w].path = "judge") =>
            /\ pc[w] = "judge" =>
                 LET a == data[w]
                     absent == /\ a.spj_version # None
                               /\ a.spj_config # None
                               /\ Format(a.spj_config[1].exe_name, a.spj_version[1],
                                         a.test_case_id[1]) \notin DOMAIN spjExeFiles
                 IN IF absent
                    THEN pc'[w] = "compile_spj"
                    ELSE pc'[w] = "enter" /\ call'[w].spjCompiles = 0
            /\ pc[w] \in {"enter", "body", "engine", "exit"} =>
                 /\ pc'[w] \in {"body", "engine", "exit", "done"}
                 /\ call'[w].spjCompiles = call[w].spjCompiles]_vars

C14_Witness ==
    \E w \in Workers :
        /\ req[w].path = "judge" /\ pc[w] = "enter"
        /\ data[w].spj_version # None /\ data[w].spj_config # None
        /\ SpjExePath(data[w]) \in DOMAIN spjExeFiles
        /\ call[w].spjCompiles = 0

\* C15: (one request at a time) compile_spj writes the checker source file
\* only when no file exists at the resolved source path: when one exists the
\* call goes straight to the Compiler, no step of the call changes the stored
\* file, also when the supplied src differs from it, and the text the Compiler
\* is run on is the content of the stored file.
C15_SourceWrittenOnlyWhenAbsent ==
    [][\A w \in Workers :
        StepBy(w) =>
            /\ spjSrcFiles' # spjSrcFiles =>
                 /\ pc[w] = "spj_write"
                 /\ SpjSrcName(w) \notin DOMAIN spjSrcFiles
                 /\ \A n \in DOMAIN spjSrcFiles : spjSrcFiles'[n] = spjSrcFiles[n]
            /\ (pc[w] = "compile_spj" /\ pc'[w] # "done") =>
                 pc'[w] = IF SpjSrcName(w) \in DOMAIN spjSrcFiles
                          THEN "spj_compile" ELSE "spj_write"
            /\ pc[w] = "spj_compile" =>
                 /\ pc'[w] = "spj_compiling"
                 /\ compiling'[w] = Some(spjSrcFiles[SpjSrcName(w)].content)]_vars

C15_Witness ==
    \E w \in Workers :
        /\ pc[w] = "spj_compiling"
        /\ ~call[w].spjWrote
        /\ SpjArgs(w).src = Some("good")
        /\ spjSrcFiles[SpjSrcName(w)].content = "bad"
        /\ compiling[w] = Some("bad")

\* C16 as stated: whenever the Compiler runs on a checker whose executable is
\* absent from the store, the text it compiles is the src supplied in that
\* call; and once a compile_spj call has failed with SPJCompileError, a later
\* compile_spj call for the same source path with a source that compiles
\* succeeds.
C16_CompiledTextIsSuppliedSrc ==
    \A w \in Workers :
        /\ (pc[w] = "spj_compiling" /\ SpjArgs(w).src # None
                /\ SpjExeName(w) \notin DOMAIN spjExeFiles)
              => compiling[w] = SpjArgs(w).src
        /\ (Done(w) /\ call[w].handler = Some("compile_spj") /\ SpjSrcName(w) \in failedSrc
                /\ Compiles(SpjArgs(w).src[1]))
              => ret[w][1].err = None

\* C16 amended: (one request at a time) the text the Compiler compiles for a
\* checker is the content of the stored source file, which is the src supplied
\* in that call only if the call wrote the file; and once a compile_spj call
\* has failed with SPJCompileError, every later compile_spj call for the same
\* source path fails with SPJCompileError, whatever source it supplies.
C16_CompiledTextIsStoredSource ==
    \A w \in Workers :
        /\ pc[w] = "spj_compiling"
              => /\ compiling[w] = Some(spjSrcFiles[SpjSrcName(w)].content)
                 /\ call[w].spjWrote => compiling[w] = SpjArgs(w).src
        /\ (Done(w) /\ call[w].handler = Some("compile_spj") /\ SpjSrcName(w) \in failedSrc)
              => /\ ret[w][1].err = Some("SPJCompileError")
                 /\ call[w].spjCompiles = 1

C16_Witness ==
    \E w \in Workers :
        /\ Done(w) /\ call[w].handler = Some("compile_spj")
        /\ SpjSrcName(w) \in failedSrc
        /\ SpjArgs(w).src = Some("good")
        /\ call[w].spjCompiles = 1
        /\ ret[w][1].err = Some("SPJCompileError")

\* C17: in a judge call with a compile specification, the Execution Engine is
\* reached or invoked only when the Compiler has been invoked on the
\* submission and has returned its executable path; when the Compiler raised
\* CompileError the Execution Engine is not invoked in that call, and the
\* envelope is {err: CompileError, data: the Compiler's message} unless the
\* release of the workspace failed.
C17_EngineOnlyAfterCompile ==
    \A w \in Workers :
        (call[w].handler = Some("judge") /\ TruthyConfig(data[w].language_config[1].compile)) =>
            /\ (pc[w] = "engine" \/ call[w].engineCalls > 0) =>
                 /\ call[w].compiles = 1
                 /\ call[w].raised # Some(CompilerError)
                 /\ exe_path[w] = Some(data[w].language_config[1].compile[1].exe_name)
            /\ call[w].raised = Some(CompilerError) =>
                 /\ call[w].engineCalls = 0
                 /\ pc[w] \in {"exit", "done"}
                 /\ (Done(w) /\ call[w].released # Some("failed")) =>
                      ret[w] = Some([err |-> Some("CompileError"),
                                     data |-> CompilerError.message])

C17_Witness ==
    \E w \in Workers :
        /\ Done(w) /\ call[w].handler = Some("judge")
        /\ call[w].raised = Some(CompilerError)
        /\ call[w].released = Some("ok")
        /\ call[w].engineCalls = 0
        /\ ret[w][1].err = Some("CompileError")

\* C18: in a judge call whose language_config has no compile specification
\* (None or the empty dict) the Compiler is never invoked on the submission,
\* and once the with block has written, the one file in the workspace is the
\* source under run.exe_name and that is the executable path the Execution
\* Engine is invoked with; in a judge call with a non-empty compile
\* specification that got as far as the compile step, the Compiler has been
\* invoked exactly once on the submission, and never more than once.
C18_NoCompileSpecNoCompiler ==
    \A w \in Workers :
        call[w].handler = Some("judge") =>
            LET lc == data[w].language_config[1]
                pastBody == \/ pc[w] = "engine"
                            \/ call[w].engineCalls > 0
                            \/ call[w].raised = Some(CompilerError)
            IN IF lc.compile = None \/ lc.compile = Some(EmptyConfig)
               THEN /\ call[w].compiles = 0
                    /\ call[w].raised # Some(CompilerError)
                    /\ pastBody => /\ call[w].written = {lc.run.exe_name}
                                   /\ exe_path[w] = Some(lc.run.exe_name)
               ELSE /\ call[w].compiles \in {0, 1}
                    /\ pastBody => call[w].compiles = 1
                    /\ call[w].compiles = 0 => /\ call[w].written = {}
                                               /\ call[w].engineCalls = 0

C18_Witness ==
    \E w \in Workers :
        /\ call[w].handler = Some("judge")
        /\ data[w].language_config[1].compile = Some(EmptyConfig)
        /\ call[w].engineCalls = 1
        /\ call[w].compiles = 0
        /\ exe_path[w] = Some(RunConfig.exe_name)

\* C19: while a judge call is in compile_spj it has no workspace directory,
\* has written no submission source, has not invoked the Compiler on the
\* submission nor the Execution Engine; and a judge call whose checker
\* compile failed is answered SPJCompileError with none of these done.
C19_CheckerBeforeWorkspace ==
    \A w \in Workers :
        (call[w].handler = Some("judge")
            /\ (pc[w] \in {"compile_spj", "spj_write", "spj_compile", "spj_compiling"}
                \/ call[w].spjFailed))
          => /\ call[w].setup = None /\ ~call[w].created
             /\ sid[w][1] \notin DOMAIN workspace
             /\ call[w].written = {}
             /\ call[w].compiles = 0
             /\ call[w].engineCalls = 0
             /\ call[w].spjFailed =>
                  /\ Done(w)
                  /\ ret[w] = Some([err |-> Some("SPJCompileError"),
                                    data |-> CompilerError.message])

C19_Witness ==
    \E w \in Workers :
        /\ Done(w) /\ call[w].handler = Some("judge")
        /\ call[w].spjFailed /\ call[w].spjCompiles = 1
        /\ ret[w][1].err = Some("SPJCompileError")
        /\ sid[w][1] \notin DOMAIN workspace

\* C20: whenever a judge call that was given spj_version and spj_config has
\* invoked the Execution Engine, the checker executable at the path judge
\* resolved from spj_config's exe_name template is in the executable store,
\* also when the call went through compile_spj.
C20_CheckerExistsAtRun ==
    \A w \in Workers :
        (call[w].handler = Some("judge") /\ call[w].engineCalls > 0
            /\ data[w].spj_version # None /\ data[w].spj_config # None)
          => SpjExePath(data[w]) \in DOMAIN spjExeFiles
====
